---------------------------- MODULE Spec2Model ----------------------------
(***************************************************************************)
(* Payment-first checkout pipeline of the storefront backend:              *)
(* createPaymentSession, handlePhonePeCallback, verifyPaymentStatus,       *)
(* createOrderFromPaymentSession and cleanupExpiredSessions of             *)
(* src/src/controller/orderController.ts, with PhonePeService's checksum   *)
(* protocol of src/src/services/paymentService.ts.                         *)
(*                                                                         *)
(* Every `await` on the store or on the gateway is one step of a handler,  *)
(* so the handlers of concurrent requests interleave between store calls.  *)
(* Null is modelled as 0 for ids, times and urls.                          *)
(***************************************************************************)
EXTENDS Integers, Sequences, FiniteSets, TLC

\* ------------------------------------------------------------- bounds
NumUsers == 2
NumProducts == 2
MaxSessions == 2
MaxHandlers == 2
MaxFaults == 1
MaxOrders == 2
MaxTime == 17
MaxPrice == 2
InitStock == 1

\* ------------------------------------------------------------- program constants
\* minutes: 15 * 60 * 1000 ms
TTL == 15
\* the shared secret and its index, as numbers
SaltKey == 7
SaltIndex == 1
\* Cart.quantity @default(1)
DefaultQuantity == 1

Users == 1..NumUsers
Products == 1..NumProducts
Prices == 1..MaxPrice
\* One cart row per (user, product): @@unique([userId, productId]).
CartIds == 1..(NumUsers * NumProducts)
Addresses == {1}
GatewayStates == {"COMPLETED", "FAILED", "PENDING"}
\* The transaction ids a request may name; one of no session while fewer exist.
TxnIds == 1..MaxSessions

VARIABLES
    sessions,   \* the PaymentSession collection, in creation order
    orders,     \* the Order collection with each order's OrderItems
    stock,      \* Product.stock
    price,      \* Product.price
    isActive,   \* Product.isActive
    cart,       \* the Cart collection
    now,        \* the clock, in minutes
    handlers,   \* the callback and poll requests: position and locals
    faults,     \* store errors so far
    reply       \* the HTTP response sent by the last step, if it sent one

vars == <<sessions, orders, stock, price, isActive, cart, now, handlers, faults, reply>>

\* ------------------------------------------------------------- helpers
RECURSIVE SeqOfSet(_)
\* The rows of a query, in id order.
SeqOfSet(S) ==
    IF S = {} THEN << >>
    ELSE LET m == CHOOSE x \in S : \A y \in S : x <= y
         IN <<m>> \o SeqOfSet(S \ {m})

RECURSIVE SumSeq(_)
SumSeq(q) == IF q = << >> THEN 0 ELSE Head(q) + SumSeq(Tail(q))

NoCart == [userId |-> 0, productId |-> 0, quantity |-> 0]

\* prisma.cart.findMany({ where: { userId, id: { in: ids } }, include: { product: true } })
CartRows(u, ids) ==
    LET hit == {c \in CartIds : c \in ids /\ cart[c].userId = u}
        rows == SeqOfSet(hit)
    IN [i \in 1..Len(rows) |->
          [id |-> rows[i],
           productId |-> cart[rows[i]].productId,
           quantity |-> cart[rows[i]].quantity,
           price |-> price[cart[rows[i]].productId],
           stock |-> stock[cart[rows[i]].productId]]]

\* cartItems.reduce((sum, item) => sum + item.product.price * item.quantity, 0)
TotalAmount(rows) == SumSeq([i \in 1..Len(rows) |-> rows[i].price * rows[i].quantity])

\* ------------------------------------------------------------- PhonePeService
\* generateTransactionId: 'TXN_' + Date.now() + '_' + nine characters of
\* Math.random(). Neither the clock nor the random number excludes a repeat, so
\* any id may come out.
generateTransactionId == TxnIds

\* A string is a sequence of numbers; sha256 is a polynomial hash of it.
RECURSIVE Sha256(_)
Sha256(str) ==
    IF str = << >> THEN 17
    ELSE (Sha256(SubSeq(str, 1, Len(str) - 1)) * 31 + str[Len(str)]) % 1009

\* sha256(payload + endpoint + saltKey) + '###' + saltIndex
generateChecksum(payload, endpoint) ==
    <<Sha256(payload \o endpoint \o <<SaltKey>>), SaltIndex>>

\* A verification that compares only the '###' + saltIndex suffix.
verifyCallback_SuffixOnly(response, checksum) ==
    generateChecksum(response, << >>)[2] = checksum[2]

\* expectedChecksum === checksum
verifyCallback(response, checksum) ==
    generateChecksum(response, << >>) = checksum

StateCode(g) == CASE g = "COMPLETED" -> 1 [] g = "FAILED" -> 2 [] OTHER -> 3

\* The body the gateway sends: base64(JSON({ data: { merchantTransactionId,
\* transactionId, state } })), one number per field.
EncodeCallback(t, g) == <<t + 10, StateCode(g) + 20>>

\* The gateway's own id of transaction t.
GatewayTxn(t) == t + 100

Malformed == [malformed |-> TRUE]

\* JSON.parse(Buffer.from(encodedResponse, 'base64').toString('utf-8'))
decodeCallbackResponse(response) ==
    IF /\ Len(response) = 2
       /\ response[1] - 10 \in TxnIds
       /\ response[2] - 20 \in 1..3
    THEN [malformed |-> FALSE,
          merchantTransactionId |-> response[1] - 10,
          transactionId |-> GatewayTxn(response[1] - 10),
          state |-> CASE response[2] = 21 -> "COMPLETED"
                      [] response[2] = 22 -> "FAILED"
                      [] OTHER -> "PENDING"]
    ELSE Malformed

\* The bodies and headers a webhook request may carry: every encoded callback,
\* a body that does not decode, and no body or header at all.
GarbageBody == <<99>>
Bodies == {EncodeCallback(t, g) : t \in TxnIds, g \in GatewayStates} \cup {GarbageBody, << >>}
Headers == {generateChecksum(b, << >>) : b \in Bodies \ {<< >>}} \cup {<< >>}

\* ------------------------------------------------------------- state
\* A request handler: its position (pc), the session it found, the gateway state
\* it was given, the paymentSession object it read (status and orderId as read,
\* phonePeTransactionId as passed to createOrderFromPaymentSession), and the materializer's
\* locals (items, order, next). A local holds its value while the code still
\* reads it.
Idle ==
    [pc |-> "idle", kind |-> "none", sess |-> 0, state |-> "none",
     snapStatus |-> "none", paymentId |-> 0, snapOrderId |-> 0, items |-> << >>, order |-> 0, next |-> 0]

NoResponse == [op |-> "none", code |-> 0, error |-> "", status |-> "none", orderId |-> 0]

Init ==
    /\ sessions = << >>
    /\ orders = << >>
    /\ stock = [p \in Products |-> InitStock]
    /\ price = [p \in Products |-> 1]
    /\ isActive = [p \in Products |-> TRUE]
    /\ cart = [c \in CartIds |->
                 [userId |-> ((c - 1) \div NumProducts) + 1,
                  productId |-> ((c - 1) % NumProducts) + 1,
                  quantity |-> DefaultQuantity]]
    /\ now = 1
    /\ handlers = [h \in 1..MaxHandlers |-> Idle]
    /\ faults = 0
    /\ reply = NoResponse

Busy == {h \in 1..MaxHandlers : handlers[h].pc # "idle"}
\* A request takes the first free handler record; the orders are capped.
FreeHandler(h) ==
    /\ handlers[h].pc = "idle"
    /\ \A g \in 1..(h - 1) : handlers[g].pc # "idle"
    /\ Len(orders) + Cardinality(Busy) < MaxOrders

\* res.status(code).json({ error }): the handler is over.
Reject(h, op, code, error) ==
    /\ handlers' = [handlers EXCEPT ![h] = Idle]
    /\ reply' = [NoResponse EXCEPT !.op = op, !.code = code, !.error = error]

\* res.status(200).json(...), with the session's view for a poll: the handler is over.
Finish(h, op, status, orderId) ==
    /\ handlers' = [handlers EXCEPT ![h] = Idle]
    /\ reply' = [op |-> op, code |-> 200, error |-> "", status |-> status, orderId |-> orderId]

\* The handler goes on to its next store or gateway call.
Continue(h, r) ==
    /\ handlers' = [handlers EXCEPT ![h] = r]
    /\ reply' = NoResponse

\* A lookup that falls back on the latest session when none has the id.
FindSession_Latest(t) ==
    IF \E s \in 1..Len(sessions) : sessions[s].transactionId = t
    THEN CHOOSE s \in 1..Len(sessions) : sessions[s].transactionId = t
    ELSE Len(sessions)

\* prisma.paymentSession.findUnique({ where: { transactionId } }): 0 when absent.
FindSession(t) ==
    IF \E s \in 1..Len(sessions) : sessions[s].transactionId = t
    THEN CHOOSE s \in 1..Len(sessions) : sessions[s].transactionId = t
    ELSE 0

\* prisma.paymentSession.update({ where: { id }, data })
UpdateSession(s, data) ==
    [sessions EXCEPT ![s] = [f \in DOMAIN sessions[s] |->
        IF f \in DOMAIN data THEN data[f] ELSE sessions[s][f]]]

OrdersOf(s) == {o \in 1..Len(orders) : orders[o].session = s}

\* ------------------------------------------------------------- environment
\* Time passes: more than the sessions' time to live.
Tick ==
    /\ now + TTL + 1 <= MaxTime
    /\ now' = now + TTL + 1
    /\ UNCHANGED <<sessions, orders, stock, price, isActive, cart, handlers, faults>>
    /\ reply' = NoResponse

\* updateProduct with a price: the catalog price changes.
UpdateProduct(p, newPrice) ==
    /\ newPrice # price[p]
    /\ price' = [price EXCEPT ![p] = newPrice]
    /\ UNCHANGED <<sessions, orders, stock, isActive, cart, now, handlers, faults>>
    /\ reply' = NoResponse

\* updateProduct with isActive: the admin takes a product off sale or puts it back.
SetProductActive(p, active) ==
    /\ active # isActive[p]
    /\ isActive' = [isActive EXCEPT ![p] = active]
    /\ UNCHANGED <<sessions, orders, stock, price, cart, now, handlers, faults>>
    /\ reply' = NoResponse

\* updateProduct with a stock: the admin sets the stock of a product.
SetProductStock(p, n) ==
    /\ n # stock[p]
    /\ stock' = [stock EXCEPT ![p] = n]
    /\ UNCHANGED <<sessions, orders, price, isActive, cart, now, handlers, faults>>
    /\ reply' = NoResponse

\* removeFromCart: the owner deletes a cart row.
RemoveFromCart(u, c) ==
    /\ cart[c].userId = u
    /\ cart' = [cart EXCEPT ![c] = NoCart]
    /\ UNCHANGED <<sessions, orders, stock, price, isActive, now, handlers, faults>>
    /\ reply' = NoResponse

\* ------------------------------------------------------------- createPaymentSession
\* A creation that persists the session before it checks the stock.
CreatePaymentSession_PersistFirst(u, addr, ids) ==
    LET cartItems == CartRows(u, ids)
    IN /\ Len(sessions) < MaxSessions
       /\ IF addr \notin Addresses
          THEN /\ reply' = [NoResponse EXCEPT !.op = "create", !.code = 400,
                                               !.error = "field is required in shipping address"]
               /\ UNCHANGED sessions
          ELSE IF Len(cartItems) # Cardinality(ids)
          THEN /\ reply' = [NoResponse EXCEPT !.op = "create", !.code = 400,
                                               !.error = "Some selected items are not in your cart"]
               /\ UNCHANGED sessions
          ELSE IF \E i \in 1..Len(cartItems) : ~isActive[cartItems[i].productId]
          THEN /\ reply' = [NoResponse EXCEPT !.op = "create", !.code = 400,
                                               !.error = "Unavailable products"]
               /\ UNCHANGED sessions
          ELSE IF \E i \in 1..Len(cartItems) : cartItems[i].stock < cartItems[i].quantity
          THEN /\ reply' = [NoResponse EXCEPT !.op = "create", !.code = 400,
                                               !.error = "Insufficient stock"]
               /\ sessions' = Append(sessions,
                    [transactionId |-> Len(sessions) + 1,
                     userId |-> u,
                     amount |-> TotalAmount(cartItems),
                     cartItemIds |-> ids,
                     shippingAddress |-> addr,
                     status |-> "PENDING",
                     phonePeTransactionId |-> 0,
                     completedAt |-> 0,
                     orderId |-> 0,
                     paymentUrl |-> 0,
                     expiresAt |-> now + TTL,
                     initiating |-> FALSE])
          ELSE /\ sessions' = Append(sessions,
                    [transactionId |-> Len(sessions) + 1,
                     userId |-> u,
                     amount |-> TotalAmount(cartItems),
                     cartItemIds |-> ids,
                     shippingAddress |-> addr,
                     status |-> "PENDING",
                     phonePeTransactionId |-> 0,
                     completedAt |-> 0,
                     orderId |-> 0,
                     paymentUrl |-> 0,
                     expiresAt |-> now + TTL,
                     initiating |-> TRUE])
               /\ reply' = NoResponse
       /\ UNCHANGED <<orders, stock, price, isActive, cart, now, handlers, faults>>

\* The store refuses nothing: two sessions may carry one transactionId.
UniqueViolation_Never(transactionId) == FALSE

\* PaymentSession.transactionId is a unique key of the store (the handlers look a
\* session up with findUnique({ where: { transactionId } })): a create whose id is
\* in use is refused.
UniqueViolation(transactionId) ==
    \E s \in 1..Len(sessions) : sessions[s].transactionId = transactionId

\* Lines 31-88 and 139-142: validation, then the PENDING session is persisted
\* under the generated transactionId; a create the store refuses is caught and
\* answered 500.
CreateSession(u, addr, ids, transactionId) ==
    LET cartItems == CartRows(u, ids)
    IN /\ Len(sessions) < MaxSessions
       /\ IF addr \notin Addresses
          THEN /\ reply' = [NoResponse EXCEPT !.op = "create", !.code = 400,
                                               !.error = "field is required in shipping address"]
               /\ UNCHANGED sessions
          ELSE IF Len(cartItems) # Cardinality(ids)
          THEN /\ reply' = [NoResponse EXCEPT !.op = "create", !.code = 400,
                                               !.error = "Some selected items are not in your cart"]
               /\ UNCHANGED sessions
          ELSE IF \E i \in 1..Len(cartItems) : ~isActive[cartItems[i].productId]
          THEN /\ reply' = [NoResponse EXCEPT !.op = "create", !.code = 400,
                                               !.error = "Unavailable products"]
               /\ UNCHANGED sessions
          ELSE IF \E i \in 1..Len(cartItems) : cartItems[i].stock < cartItems[i].quantity
          THEN /\ reply' = [NoResponse EXCEPT !.op = "create", !.code = 400,
                                               !.error = "Insufficient stock"]
               /\ UNCHANGED sessions
          ELSE IF UniqueViolation(transactionId)
          THEN /\ reply' = [NoResponse EXCEPT !.op = "create", !.code = 500,
                                               !.error = "Internal server error"]
               /\ UNCHANGED sessions
          ELSE /\ sessions' = Append(sessions,
                    [transactionId |-> transactionId,
                     userId |-> u,
                     amount |-> TotalAmount(cartItems),
                     cartItemIds |-> ids,
                     shippingAddress |-> addr,
                     status |-> "PENDING",
                     phonePeTransactionId |-> 0,
                     completedAt |-> 0,
                     orderId |-> 0,
                     paymentUrl |-> 0,
                     expiresAt |-> now + TTL,
                     initiating |-> TRUE])
               /\ reply' = NoResponse
       /\ UNCHANGED <<orders, stock, price, isActive, cart, now, handlers, faults>>

\* A creation whose generated transactionId is the next unused one.
CreatePaymentSession(u, addr, ids) == CreateSession(u, addr, ids, Len(sessions) + 1)

\* A creation that consumes the selected cart rows once the gateway accepted.
InitiateReturn_ConsumeCart(s, outcome) ==
    /\ s \in 1..Len(sessions)
    /\ sessions[s].initiating
    /\ CASE outcome = "accepted" ->
              /\ sessions' = UpdateSession(s, [paymentUrl |-> 1, initiating |-> FALSE])
              /\ cart' = [c \in CartIds |->
                            IF c \in sessions[s].cartItemIds THEN NoCart ELSE cart[c]]
              /\ reply' = [NoResponse EXCEPT !.op = "create", !.code = 201]
         [] outcome = "declined" ->
              /\ sessions' = UpdateSession(s, [status |-> "FAILED", initiating |-> FALSE])
              /\ reply' = [NoResponse EXCEPT !.op = "create", !.code = 400,
                                              !.error = "Payment initiation failed"]
              /\ UNCHANGED cart
         [] OTHER ->
              /\ sessions' = UpdateSession(s, [initiating |-> FALSE])
              /\ reply' = [NoResponse EXCEPT !.op = "create", !.code = 500,
                                              !.error = "Internal server error"]
              /\ UNCHANGED cart
    /\ UNCHANGED <<orders, stock, price, isActive, now, handlers, faults>>

\* Lines 91-141: phonePeService.initiatePayment returns or throws, and the
\* handler answers.
InitiateReturn(s, outcome) ==
    /\ s \in 1..Len(sessions)
    /\ sessions[s].initiating
    /\ CASE outcome = "accepted" ->
              /\ sessions' = UpdateSession(s, [paymentUrl |-> 1, initiating |-> FALSE])
              /\ reply' = [NoResponse EXCEPT !.op = "create", !.code = 201]
         [] outcome = "declined" ->
              /\ sessions' = UpdateSession(s, [status |-> "FAILED", initiating |-> FALSE])
              /\ reply' = [NoResponse EXCEPT !.op = "create", !.code = 400,
                                              !.error = "Payment initiation failed"]
         [] OTHER ->
              /\ sessions' = UpdateSession(s, [initiating |-> FALSE])
              /\ reply' = [NoResponse EXCEPT !.op = "create", !.code = 500,
                                              !.error = "Internal server error"]
    /\ UNCHANGED <<orders, stock, price, isActive, cart, now, handlers, faults>>

\* ------------------------------------------------------------- cleanupExpiredSessions
\* A sweep that selects on the expiry time alone.
Expirable_AnyStatus(s) == sessions[s].expiresAt < now

\* A sweep whose time comparison is reversed: it selects the sessions that are
\* not yet due.
Expirable_NotYet(s) == sessions[s].status = "PENDING" /\ sessions[s].expiresAt > now

\* where: { status: 'PENDING', expiresAt: { lt: new Date() } }
Expirable(s) == sessions[s].status = "PENDING" /\ sessions[s].expiresAt < now

\* Lines 593-613: updateMany(..., data: { status: 'EXPIRED' }).
cleanupExpiredSessions ==
    /\ \E s \in 1..Len(sessions) : Expirable(s)
    /\ sessions' = [s \in 1..Len(sessions) |->
                      IF Expirable(s)
                      THEN [sessions[s] EXCEPT !.status = "EXPIRED"]
                      ELSE sessions[s]]
    /\ UNCHANGED <<orders, stock, price, isActive, cart, now, handlers, faults>>
    /\ reply' = NoResponse

\* ------------------------------------------------------------- handlePhonePeCallback
\* Lines 148-178: the checks, the decoding and the lookup of the session.
CallbackReceive(h, body, checksum) ==
    LET callbackData == decodeCallbackResponse(body)
        s == IF callbackData.malformed THEN 0
             ELSE FindSession(callbackData.merchantTransactionId)
    IN /\ FreeHandler(h)
       /\ IF body = << >> \/ checksum = << >>
          THEN Reject(h, "callback", 400, "Missing response or checksum")
          ELSE IF ~verifyCallback(body, checksum)
          THEN Reject(h, "callback", 400, "Invalid callback")
          ELSE IF callbackData.malformed
          THEN Reject(h, "callback", 500, "Callback processing failed")
          ELSE IF s = 0
          THEN Reject(h, "callback", 404, "Payment session not found")
          ELSE Continue(h, [Idle EXCEPT !.pc = "cb_update", !.kind = "callback",
                     !.sess = s,
                     !.state = callbackData.state,
                     !.snapStatus = sessions[s].status,
                     !.paymentId = sessions[s].phonePeTransactionId])
       /\ UNCHANGED <<sessions, orders, stock, price, isActive, cart, now, faults>>

\* A callback that counts every verified report as a payment.
CallbackStatus_AlwaysSuccess(state) == "SUCCESS"

\* status: state === 'COMPLETED' ? 'SUCCESS' : 'FAILED'
CallbackStatus(state) == IF state = "COMPLETED" THEN "SUCCESS" ELSE "FAILED"

\* A callback that also recomputes the session's amount from the live cart.
CallbackUpdate_Reprice(h) ==
    LET r == handlers[h]
        completed == r.state = "COMPLETED"
    IN /\ r.pc = "cb_update"
       /\ sessions' = UpdateSession(r.sess,
            [status |-> CallbackStatus(r.state),
             phonePeTransactionId |-> GatewayTxn(sessions[r.sess].transactionId),
             completedAt |-> IF completed THEN now ELSE 0,
             amount |-> TotalAmount(CartRows(sessions[r.sess].userId,
                                             sessions[r.sess].cartItemIds))])
       /\ IF completed
          THEN Continue(h, [r EXCEPT !.pc = "m_find", !.state = "none", !.snapStatus = "none"])
          ELSE Finish(h, "callback", "none", 0)
       /\ UNCHANGED <<orders, stock, price, isActive, cart, now, faults>>

\* Lines 180-196: the update of the session, then the materializer or the answer.
CallbackUpdate(h) ==
    LET r == handlers[h]
        completed == r.state = "COMPLETED"
    IN /\ r.pc = "cb_update"
       /\ sessions' = UpdateSession(r.sess,
            [status |-> CallbackStatus(r.state),
             phonePeTransactionId |-> GatewayTxn(sessions[r.sess].transactionId),
             completedAt |-> IF completed THEN now ELSE 0])
       /\ IF completed
          THEN Continue(h, [r EXCEPT !.pc = "m_find", !.state = "none", !.snapStatus = "none"])
          ELSE Finish(h, "callback", "none", 0)
       /\ UNCHANGED <<orders, stock, price, isActive, cart, now, faults>>

\* ------------------------------------------------------------- verifyPaymentStatus
\* A poll that tells a session of another user from a missing one.
PollReceive_Forbidden(h, t, u) ==
    LET s == FindSession(t)
    IN /\ FreeHandler(h)
       /\ IF s = 0
          THEN Reject(h, "poll", 404, "Payment session not found")
          ELSE IF sessions[s].userId # u
          THEN Reject(h, "poll", 403, "Forbidden")
          ELSE IF sessions[s].status # "PENDING"
          THEN Finish(h, "poll", sessions[s].status, sessions[s].orderId)
          ELSE Continue(h, [Idle EXCEPT !.pc = "poll_gateway", !.kind = "poll",
                     !.sess = s,
                     !.snapOrderId = sessions[s].orderId])
       /\ UNCHANGED <<sessions, orders, stock, price, isActive, cart, now, faults>>

\* A poll that asks the gateway about every session that is not SUCCESS.
PollReceive_AskUnlessPaid(h, t, u) ==
    LET s == FindSession(t)
    IN /\ FreeHandler(h)
       /\ IF s = 0 \/ (s # 0 /\ sessions[s].userId # u)
          THEN Reject(h, "poll", 404, "Payment session not found")
          ELSE IF sessions[s].status = "SUCCESS"
          THEN Finish(h, "poll", sessions[s].status, sessions[s].orderId)
          ELSE Continue(h, [Idle EXCEPT !.pc = "poll_gateway", !.kind = "poll",
                     !.sess = s,
                     !.snapOrderId = sessions[s].orderId])
       /\ UNCHANGED <<sessions, orders, stock, price, isActive, cart, now, faults>>

\* Lines 324-346 and 394-397: the lookup, the ownership check, the stored view.
PollReceive(h, t, u) ==
    LET s == FindSession(t)
    IN /\ FreeHandler(h)
       /\ IF s = 0 \/ (s # 0 /\ sessions[s].userId # u)
          THEN Reject(h, "poll", 404, "Payment session not found")
          ELSE IF sessions[s].status # "PENDING"
          THEN Finish(h, "poll", sessions[s].status, sessions[s].orderId)
          ELSE Continue(h, [Idle EXCEPT !.pc = "poll_gateway", !.kind = "poll",
                     !.sess = s,
                     !.snapOrderId = sessions[s].orderId])
       /\ UNCHANGED <<sessions, orders, stock, price, isActive, cart, now, faults>>

\* state === 'COMPLETED' ? 'SUCCESS' : state === 'FAILED' ? 'FAILED' : 'PENDING'
NewStatus(g) ==
    IF g = "COMPLETED" THEN "SUCCESS" ELSE IF g = "FAILED" THEN "FAILED" ELSE "PENDING"

\* A poll that records a failed status check as a failed payment.
PollGateway_FailOnError(h, answer) ==
    LET r == handlers[h]
        newStatus == NewStatus(answer)
        gtxn == GatewayTxn(sessions[r.sess].transactionId)
    IN /\ r.pc = "poll_gateway"
       /\ IF answer = "error"
          THEN /\ Finish(h, "poll", "FAILED", r.snapOrderId)
               /\ sessions' = UpdateSession(r.sess, [status |-> "FAILED"])
          ELSE /\ sessions' = UpdateSession(r.sess,
                    [status |-> newStatus,
                     phonePeTransactionId |-> gtxn,
                     completedAt |-> IF newStatus = "SUCCESS" THEN now ELSE 0])
               /\ Continue(h, IF newStatus = "SUCCESS" /\ r.snapOrderId = 0
                               THEN [r EXCEPT !.paymentId = gtxn, !.pc = "m_find"]
                               ELSE [r EXCEPT !.snapOrderId = 0, !.pc = "poll_final"])
       /\ UNCHANGED <<orders, stock, price, isActive, cart, now, faults>>

\* Lines 348-368 and 389-397: checkPaymentStatus answers (a gateway state) or fails
\* ("error": it throws, or success is false); on an answer the session is updated.
PollGateway(h, answer) ==
    LET r == handlers[h]
        newStatus == NewStatus(answer)
        gtxn == GatewayTxn(sessions[r.sess].transactionId)
    IN /\ r.pc = "poll_gateway"
       /\ IF answer = "error"
          THEN /\ Finish(h, "poll", "PENDING", r.snapOrderId)
               /\ UNCHANGED sessions
          ELSE /\ sessions' = UpdateSession(r.sess,
                    [status |-> newStatus,
                     phonePeTransactionId |-> gtxn,
                     completedAt |-> IF newStatus = "SUCCESS" THEN now ELSE 0])
               /\ Continue(h, IF newStatus = "SUCCESS" /\ r.snapOrderId = 0
                               THEN [r EXCEPT !.paymentId = gtxn, !.pc = "m_find"]
                               ELSE [r EXCEPT !.snapOrderId = 0, !.pc = "poll_final"])
       /\ UNCHANGED <<orders, stock, price, isActive, cart, now, faults>>

\* Lines 370-387: the session is read again for the response.
PollFinal(h) ==
    LET r == handlers[h]
    IN /\ r.pc = "poll_final"
       /\ Finish(h, "poll", sessions[r.sess].status, sessions[r.sess].orderId)
       /\ UNCHANGED <<sessions, orders, stock, price, isActive, cart, now, faults>>

\* ------------------------------------------------------------- createOrderFromPaymentSession
\* Lines 207-213: the session's cart rows, with each product as it is now.
MatFindCart(h) ==
    LET r == handlers[h]
        ps == sessions[r.sess]
    IN /\ r.pc = "m_find"
       /\ Continue(h, [r EXCEPT
            !.items = CartRows(ps.userId, ps.cartItemIds), !.pc = "m_order"])
       /\ UNCHANGED <<sessions, orders, stock, price, isActive, cart, now, faults>>

\* A materializer that prices the order from the cart rows it has just read.
MatCreateOrder_Recompute(h) ==
    LET r == handlers[h]
        ps == sessions[r.sess]
    IN /\ r.pc = "m_order"
       /\ orders' = Append(orders,
            [userId |-> ps.userId,
             totalAmount |-> TotalAmount(r.items),
             paymentId |-> r.paymentId,
             shippingAddress |-> ps.shippingAddress,
             items |-> << >>,
             session |-> r.sess])
       /\ Continue(h, [r EXCEPT !.order = Len(orders) + 1, !.paymentId = 0, !.pc = "m_items"])
       /\ UNCHANGED <<sessions, stock, price, isActive, cart, now, faults>>

\* A materializer that links the session to the order as soon as the order row
\* exists.
MatCreateOrder_LinkFirst(h) ==
    LET r == handlers[h]
        ps == sessions[r.sess]
    IN /\ r.pc = "m_order"
       /\ orders' = Append(orders,
            [userId |-> ps.userId,
             totalAmount |-> ps.amount,
             paymentId |-> r.paymentId,
             shippingAddress |-> ps.shippingAddress,
             items |-> << >>,
             session |-> r.sess])
       /\ sessions' = UpdateSession(r.sess, [orderId |-> Len(orders) + 1])
       /\ Continue(h, [r EXCEPT !.order = Len(orders) + 1, !.paymentId = 0, !.pc = "m_items"])
       /\ UNCHANGED <<stock, price, isActive, cart, now, faults>>

\* Lines 221-233: prisma.order.create. `session` records which session the order
\* was created for.
MatCreateOrder(h) ==
    LET r == handlers[h]
        ps == sessions[r.sess]
    IN /\ r.pc = "m_order"
       /\ orders' = Append(orders,
            [userId |-> ps.userId,
             totalAmount |-> ps.amount,
             paymentId |-> r.paymentId,
             shippingAddress |-> ps.shippingAddress,
             items |-> << >>,
             session |-> r.sess])
       /\ Continue(h, [r EXCEPT !.order = Len(orders) + 1, !.paymentId = 0, !.pc = "m_items"])
       /\ UNCHANGED <<sessions, stock, price, isActive, cart, now, faults>>

\* price: item.product.price
OrderItemPrice(item) == item.price

\* Lines 236-245: prisma.orderItem.createMany.
MatCreateItems(h) ==
    LET r == handlers[h]
    IN /\ r.pc = "m_items"
       /\ orders' = [orders EXCEPT ![r.order].items =
            [i \in 1..Len(r.items) |->
               [productId |-> r.items[i].productId,
                quantity |-> r.items[i].quantity,
                price |-> OrderItemPrice(r.items[i])]]]
       /\ Continue(h, IF Len(r.items) = 0
                       THEN [r EXCEPT !.pc = "m_cart"]
                       ELSE [r EXCEPT !.next = 1, !.pc = "m_stock"])
       /\ UNCHANGED <<sessions, stock, price, isActive, cart, now, faults>>

\* Lines 248-257: one prisma.product.update({ stock: { decrement } }) per item.
MatDecrementStock(h) ==
    LET r == handlers[h]
        item == r.items[r.next]
    IN /\ r.pc = "m_stock"
       /\ stock' = [stock EXCEPT ![item.productId] = @ - item.quantity]
       /\ Continue(h, IF r.next = Len(r.items)
                       THEN [r EXCEPT !.next = 0, !.items = << >>, !.pc = "m_cart"]
                       ELSE [r EXCEPT !.next = r.next + 1])
       /\ UNCHANGED <<sessions, orders, price, isActive, cart, now, faults>>

\* A materializer that leaves the cart rows in place.
MatDeleteCart_Keep(h) ==
    LET r == handlers[h]
    IN /\ r.pc = "m_cart"
       /\ Continue(h, [r EXCEPT !.pc = "m_session"])
       /\ UNCHANGED <<sessions, orders, stock, price, isActive, cart, now, faults>>

\* A materializer that empties the user's cart.
MatDeleteCart_WholeCart(h) ==
    LET r == handlers[h]
        ps == sessions[r.sess]
    IN /\ r.pc = "m_cart"
       /\ cart' = [c \in CartIds |->
                     IF cart[c].userId = ps.userId THEN NoCart ELSE cart[c]]
       /\ Continue(h, [r EXCEPT !.pc = "m_session"])
       /\ UNCHANGED <<sessions, orders, stock, price, isActive, now, faults>>

\* Lines 260-265: prisma.cart.deleteMany({ where: { userId, id: { in: cartItemIds } } }).
MatDeleteCart(h) ==
    LET r == handlers[h]
        ps == sessions[r.sess]
    IN /\ r.pc = "m_cart"
       /\ cart' = [c \in CartIds |->
                     IF c \in ps.cartItemIds /\ cart[c].userId = ps.userId
                     THEN NoCart ELSE cart[c]]
       /\ Continue(h, [r EXCEPT !.pc = "m_session"])
       /\ UNCHANGED <<sessions, orders, stock, price, isActive, now, faults>>

\* Lines 268-271 and 287-314: session.orderId is set; the emails change no state.
\* Then the callback answers 200 (line 196) and the poll reads the session again
\* (line 371).
MatSetOrderId(h) ==
    LET r == handlers[h]
    IN /\ r.pc = "m_session"
       /\ sessions' = UpdateSession(r.sess, [orderId |-> r.order])
       /\ IF r.kind = "callback"
          THEN Finish(h, "callback", "none", 0)
          ELSE Continue(h, [r EXCEPT !.pc = "poll_final", !.order = 0])
       /\ UNCHANGED <<orders, stock, price, isActive, cart, now, faults>>

\* A store call of lines 221-271 throws.
StoreFault(h) ==
    /\ handlers[h].pc \in {"m_order", "m_items", "m_stock", "m_cart", "m_session"}
    /\ faults < MaxFaults
    /\ faults' = faults + 1
    /\ Continue(h, [handlers[h] EXCEPT !.pc = "m_fail"])
    /\ UNCHANGED <<sessions, orders, stock, price, isActive, cart, now>>

\* data: { status: 'FAILED' }
FailureStatus == "FAILED"

\* Lines 273-285: the catch marks the session and rethrows; the callback's catch
\* answers 500 (line 199), the poll's inner catch falls to the stored view (line 394).
MatFail(h) ==
    LET r == handlers[h]
    IN /\ r.pc = "m_fail"
       /\ sessions' = UpdateSession(r.sess, [status |-> FailureStatus])
       /\ IF r.kind = "callback"
          THEN Reject(h, "callback", 500, "Callback processing failed")
          ELSE Finish(h, "poll", "PENDING", 0)
       /\ UNCHANGED <<orders, stock, price, isActive, cart, now, faults>>

\* ------------------------------------------------------------- specification
HandlerStep(h) ==
    \/ CallbackUpdate(h)
    \/ \E answer \in GatewayStates \cup {"error"} : PollGateway(h, answer)
    \/ PollFinal(h)
    \/ MatFindCart(h)
    \/ MatCreateOrder(h)
    \/ MatCreateItems(h)
    \/ MatDecrementStock(h)
    \/ MatDeleteCart(h)
    \/ MatSetOrderId(h)

FaultStep(h) ==
    \/ StoreFault(h)
    \/ MatFail(h)

\* POST /phonepe/callback with any body and X-VERIFY header.
CallbackRequest(h) ==
    \E body \in Bodies, checksum \in Headers : CallbackReceive(h, body, checksum)

\* GET /payment/status/:transactionId by any user.
PollRequest(h) ==
    \E t \in TxnIds, u \in Users : PollReceive(h, t, u)

Request(h) ==
    \/ CallbackRequest(h)
    \/ PollRequest(h)

CreateRequest ==
    \E u \in Users, addr \in Addresses \cup {0}, ids \in (SUBSET CartIds) \ {{}} :
        CreatePaymentSession(u, addr, ids)

CreateStep ==
    \E s \in 1..MaxSessions, outcome \in {"accepted", "declined", "throws"} :
        InitiateReturn(s, outcome)

Environment ==
    \/ \E p \in Products, newPrice \in Prices : UpdateProduct(p, newPrice)
    \/ \E u \in Users, c \in CartIds : RemoveFromCart(u, c)

Quiescent == Busy = {} /\ \A s \in 1..Len(sessions) : ~sessions[s].initiating

\* The finalizers of one session: concurrent callbacks and polls, the reaper and
\* the clock.
Next ==
    \/ sessions = << >> /\ CreateRequest
    \/ CreateStep
    \/ \E h \in 1..MaxHandlers : Request(h) \/ HandlerStep(h)
    \/ cleanupExpiredSessions
    \/ Tick

Spec == Init /\ [][Next]_vars

\* Several sessions, one request at a time, each running to its response.
NextSeq ==
    \/ Quiescent /\ CreateRequest
    \/ CreateStep
    \/ \E h \in 1..MaxHandlers : (Quiescent /\ Request(h)) \/ HandlerStep(h)
    \/ Quiescent /\ cleanupExpiredSessions
    \/ Quiescent /\ Tick

SpecSeq == Init /\ [][NextSeq]_vars

\* One session, one request at a time, with the catalog and the carts changing
\* between the requests.
NextCatalog ==
    \/ Quiescent /\ sessions = << >> /\ CreateRequest
    \/ CreateStep
    \/ \E h \in 1..MaxHandlers : (Quiescent /\ Request(h)) \/ HandlerStep(h)
    \/ Quiescent /\ Environment

SpecCatalog == Init /\ [][NextCatalog]_vars

\* One session whose materialization may meet a store error, under concurrent
\* callbacks and polls.
NextFault ==
    \/ sessions = << >> /\ CreateRequest
    \/ CreateStep
    \/ \E h \in 1..MaxHandlers : Request(h) \/ HandlerStep(h) \/ FaultStep(h)

SpecFault == Init /\ [][NextFault]_vars

\* The finalizers of one session with the periodic sweep kept running:
\* setInterval(cleanupExpiredSessions, 5 * 60 * 1000) fires again and again, and
\* a sweep that fails is caught and only logged.
SpecReaper == Init /\ [][Next]_vars /\ WF_vars(cleanupExpiredSessions)

\* The admin's changes of a product's availability and stock.
Admin ==
    \/ \E p \in Products, active \in BOOLEAN : SetProductActive(p, active)
    \/ \E p \in Products, n \in 0..InitStock : SetProductStock(p, n)

\* The creation of one session, requested while products go off sale, stocks are
\* set and cart rows are removed.
NextCreate ==
    \/ sessions = << >> /\ CreateRequest
    \/ CreateStep
    \/ Admin
    \/ \E u \in Users, c \in CartIds : RemoveFromCart(u, c)

SpecCreate == Init /\ [][NextCreate]_vars

\* POST /payment/create-session with whatever id the generator gives.
CreateRequestAnyId ==
    \E u \in Users, addr \in Addresses, ids \in (SUBSET CartIds) \ {{}},
       transactionId \in generateTransactionId :
        CreateSession(u, addr, ids, transactionId)

\* Creations one after the other, the generator being free to repeat an id.
NextTxn ==
    \/ CreateRequestAnyId
    \/ CreateStep

SpecTxn == Init /\ [][NextTxn]_vars

\* No gateway result has been recorded on a session yet.
Unreported == \A s \in 1..Len(sessions) : sessions[s].phonePeTransactionId = 0

\* The end-to-end flow of one session: its creation, then requests one at a time,
\* the gateway's callback arriving before any gateway result was recorded.
NextFlow ==
    \/ sessions = << >> /\ CreateRequest
    \/ CreateStep
    \/ \E h \in 1..MaxHandlers :
          \/ Quiescent /\ Unreported /\ CallbackRequest(h)
          \/ Quiescent /\ PollRequest(h)
          \/ HandlerStep(h)
    \/ Quiescent /\ cleanupExpiredSessions
    \/ Quiescent /\ Tick

SpecFlow == Init /\ [][NextFlow]_vars

\* ------------------------------------------------------------- properties
Sessions == 1..Len(sessions)
Terminal == {"SUCCESS", "FAILED", "EXPIRED"}
InFlight(h, kind, s) ==
    handlers[h].pc # "idle" /\ handlers[h].kind = kind /\ handlers[h].sess = s

RECURSIVE SoldIn(_, _)
\* The quantity of product p over a sequence of order items.
SoldIn(items, p) ==
    IF items = << >> THEN 0
    ELSE (IF Head(items).productId = p THEN Head(items).quantity ELSE 0)
         + SoldIn(Tail(items), p)

RECURSIVE SoldUpTo(_, _)
\* The quantity of product p over the items of the first n orders.
SoldUpTo(n, p) == IF n = 0 THEN 0 ELSE SoldIn(orders[n].items, p) + SoldUpTo(n - 1, p)

Sold(p) == SoldUpTo(Len(orders), p)

\* C1: a 'completed' callback delivered for a session that already has its order
\* (an earlier delivery materialized it) creates no Order and changes no stock.
C1_DuplicateCallbackIsNoOp ==
    [][\A h \in 1..MaxHandlers :
         (/\ handlers[h].pc # "idle"
          /\ handlers[h].kind = "callback"
          /\ sessions[handlers[h].sess].orderId # 0)
         => (orders' = orders /\ stock' = stock)]_vars

\* C2: while a callback and a poll for the same session are both in flight, at
\* most one Order exists for the session and no product's stock is below what
\* one materialization of the session leaves.
C2_CallbackAndPollMaterializeOnce ==
    \A s \in Sessions : \A h1, h2 \in 1..MaxHandlers :
        (InFlight(h1, "callback", s) /\ InFlight(h2, "poll", s))
        => /\ Cardinality(OrdersOf(s)) <= 1
           /\ \A p \in Products : stock[p] >= InitStock - DefaultQuantity

\* C3: a callback that read a session the gateway had accepted while it was
\* PENDING does not turn it to SUCCESS once the reaper has set it EXPIRED, and the
\* reaper does not expire a session that is SUCCESS.
C3_OneTerminalStatus ==
    [][\A s \in Sessions :
         /\ (/\ sessions[s].status = "EXPIRED"
             /\ sessions[s].paymentUrl # 0
             /\ \E h \in 1..MaxHandlers :
                   InFlight(h, "callback", s) /\ handlers[h].snapStatus = "PENDING")
            => sessions'[s].status # "SUCCESS"
         /\ sessions[s].status = "SUCCESS" => sessions'[s].status # "EXPIRED"]_vars

\* C4: once a session the gateway had accepted is EXPIRED, no later request
\* turns it to SUCCESS or creates an Order for it.
C4_ExpiredStaysExpired ==
    [][\A s \in Sessions :
         (sessions[s].status = "EXPIRED" /\ sessions[s].paymentUrl # 0)
         => /\ sessions'[s].status # "SUCCESS"
            /\ \A o \in 1..Len(orders') : orders'[o].session = s => o <= Len(orders)]_vars

\* C5: after every step, a session with an orderId is SUCCESS, and an orderId
\* that was set is unchanged by the step.
C5_OrderIdOnlyOnSuccessAndStable ==
    [][\A s \in Sessions :
         /\ sessions'[s].orderId # 0 => sessions'[s].status = "SUCCESS"
         /\ sessions[s].orderId # 0 => sessions'[s].orderId = sessions[s].orderId]_vars

\* C6: the orders never hold more of a product than its stock had: of two
\* sessions that each hold the last unit of a product, at most one gets an Order
\* with it.
C6_StockBound == \A p \in Products : Sold(p) <= InitStock

\* C7: the item of an order of a one-item session carries the price the product
\* had when the session was created (the price the session's amount was
\* computed with).
C7_AmountFreezing ==
    \A o \in 1..Len(orders) :
        LET ps == sessions[orders[o].session]
            items == orders[o].items
        IN (Cardinality(ps.cartItemIds) = 1 /\ Len(items) = 1)
           => items[1].price * items[1].quantity = ps.amount

\* A callback was answered 400 and nothing else happened.
CallbackRejected ==
    /\ reply'.op = "callback" /\ reply'.code = 400
    /\ handlers' = handlers
    /\ UNCHANGED <<sessions, orders, stock, cart>>

\* C8: a callback whose header is not the digest of the body it came with is
\* rejected with 400, no handler goes on with it, and sessions, orders, stock
\* and cart are as before: every step that receives a callback and is not such a
\* rejection received a header that is the digest of the body.
C8_ChecksumIntegrity ==
    [][\A h \in 1..MaxHandlers :
         (/\ handlers[h].pc = "idle"
          /\ handlers'[h].kind = "callback" \/ reply'.op = "callback"
          /\ ~CallbackRejected)
         => \A body \in Bodies \ {<< >>}, checksum \in Headers \ {<< >>} :
              CallbackReceive(h, body, checksum) => checksum = generateChecksum(body, << >>)]_vars

\* A forged completion of a PENDING session has just been rejected.
C8_Witness ==
    /\ reply.op = "callback" /\ reply.error = "Invalid callback"
    /\ \E s \in Sessions : sessions[s].status = "PENDING" /\ ~sessions[s].initiating
    /\ orders = << >>

\* C9: the step of a callback that found its session (one the gateway had
\* accepted) SUCCESS, FAILED or EXPIRED changes no session, order, stock or cart,
\* and its answer is 200.
C9_TerminalCallbackIsNoOp ==
    [][\A h \in 1..MaxHandlers :
         (/\ handlers[h].kind = "callback"
          /\ handlers[h].pc = "cb_update"
          /\ handlers[h].snapStatus \in Terminal
          /\ sessions[handlers[h].sess].paymentUrl # 0
          /\ handlers'[h] # handlers[h])
         => /\ UNCHANGED <<sessions, orders, stock, cart>>
            /\ reply'.code = 200]_vars

\* C10: the step that handles a failed materialization of a session a completed
\* payment had set SUCCESS leaves the session SUCCESS with its orderId unset.
C10_FailureKeepsSuccess ==
    [][\A h \in 1..MaxHandlers :
         (/\ handlers[h].pc = "m_fail"
          /\ handlers'[h].pc # "m_fail"
          /\ sessions[handlers[h].sess].status = "SUCCESS")
         => /\ sessions'[handlers[h].sess].status = "SUCCESS"
            /\ sessions'[handlers[h].sess].orderId = 0]_vars

\* C11: no Order exists that was created for a session (one the gateway had
\* accepted) whose status is FAILED.
C11_NoOrderForFailedSession ==
    \A o \in 1..Len(orders) :
        sessions[orders[o].session].paymentUrl # 0
        => sessions[orders[o].session].status # "FAILED"

C13_ReaperOnlyExpiresPending ==
    [][\A s \in Sessions :
         (sessions'[s].status = "EXPIRED" /\ sessions[s].status # "EXPIRED")
         => /\ sessions[s].status = "PENDING"
            /\ sessions[s].expiresAt < now
            /\ sessions' = [sessions EXCEPT ![s].status = "EXPIRED"]]_vars

\* The reaper has expired a session while a callback that read it PENDING is in
\* flight.
C13_Witness ==
    \E s \in Sessions :
        /\ sessions[s].status = "EXPIRED"
        /\ \E h \in 1..MaxHandlers :
              InFlight(h, "callback", s) /\ handlers[h].snapStatus = "PENDING"

\* C14: the write of a poll that read its session (one the gateway had accepted)
\* PENDING leaves the status alone when the session is no longer PENDING at the
\* write.
C14_PollWriteIsCompareAndSet ==
    [][\A h \in 1..MaxHandlers :
         (/\ handlers[h].pc = "poll_gateway"
          /\ handlers'[h].pc # "poll_gateway"
          /\ sessions[handlers[h].sess].paymentUrl # 0
          /\ sessions[handlers[h].sess].status # "PENDING")
         => sessions'[handlers[h].sess].status = sessions[handlers[h].sess].status]_vars

\* C15: a step of createPaymentSession (a rejection, the persisting of the
\* session, or the answer after the gateway's initiate call) leaves every
\* product's stock, every cart row and the orders as they were.
C15_CreateSessionFrame ==
    [][(reply'.op = "create" \/ Len(sessions') # Len(sessions))
       => UNCHANGED <<stock, cart, orders>>]_vars

\* A second session has been created with success after an order had taken
\* stock and cart rows.
C15_Witness ==
    /\ reply.op = "create" /\ reply.code = 201
    /\ Len(sessions) = 2
    /\ Len(orders) = 1
    /\ \E p \in Products : stock[p] < InitStock

\* C16: the step of a poll whose gateway status check failed changes no session,
\* order, stock or cart, and answers 200 with the view the poll had read
\* (status PENDING and the orderId read).
C16_FailedStatusCheckIsNoOp ==
    [][\A h \in 1..MaxHandlers :
         PollGateway(h, "error")
         => /\ UNCHANGED <<sessions, orders, stock, cart>>
            /\ reply' = [op |-> "poll", code |-> 200, error |-> "",
                         status |-> "PENDING", orderId |-> handlers[h].snapOrderId]]_vars

\* A poll whose status check failed has answered PENDING for a session on which
\* no gateway result was ever recorded.
C16_Witness ==
    /\ reply.op = "poll" /\ reply.code = 200 /\ reply.status = "PENDING"
    /\ \E s \in Sessions :
          /\ sessions[s].status = "PENDING"
          /\ sessions[s].paymentUrl # 0
          /\ sessions[s].phonePeTransactionId = 0

\* C17: for a callback that names a session of the store or does not decode, the
\* webhook's answer on receipt is 400 exactly when the body or header is
\* missing, the verification fails or the body does not decode, and every
\* answer of a callback handler, after a failed materialization included, is 200
\* otherwise.
C17_WebhookAnswers ==
    [][\A h \in 1..MaxHandlers :
         /\ (handlers[h].pc = "idle" /\ reply'.op = "callback" /\ reply'.code # 404)
            => \A body \in Bodies, checksum \in Headers :
                 CallbackReceive(h, body, checksum)
                 => /\ reply'.code \in {200, 400}
                    /\ reply'.code = 400
                       <=> \/ body = << >> \/ checksum = << >>
                           \/ ~verifyCallback(body, checksum)
                           \/ decodeCallbackResponse(body).malformed
         /\ (/\ handlers[h].kind = "callback"
             /\ handlers[h].pc # "idle"
             /\ handlers'[h].pc = "idle")
            => reply'.code = 200]_vars

\* C18: a poll for a transaction id of no session and a poll for a session of
\* another user get one and the same answer (404 'Payment session not found'),
\* start no gateway status call and change no session, order, stock or cart.
C18_ForeignPollIsNotFound ==
    [][\A h \in 1..MaxHandlers :
         (handlers[h].pc = "idle" /\ (reply'.op = "poll" \/ handlers'[h].kind = "poll"))
         => \A t \in TxnIds, u \in Users :
         (/\ FindSession(t) = 0 \/ sessions[FindSession(t)].userId # u
          /\ PollReceive(h, t, u))
         => /\ reply' = [NoResponse EXCEPT !.op = "poll", !.code = 404,
                                           !.error = "Payment session not found"]
            /\ handlers' = handlers
            /\ UNCHANGED <<sessions, orders, stock, cart>>]_vars

\* Every transaction id names a session, one of them PENDING, and a poll has
\* just been answered not-found: it was a poll for a session of another user.
C18_Witness ==
    /\ reply.op = "poll" /\ reply.code = 404
    /\ Len(sessions) = MaxSessions
    /\ \E s \in Sessions : sessions[s].status = "PENDING" /\ sessions[s].paymentUrl # 0

\* C19: the step that ends a createPaymentSession whose initiate call did not
\* succeed leaves the session FAILED and answers with an error.
C19_FailedInitiateFailsSession ==
    [][\A s \in Sessions :
         (/\ sessions[s].initiating
          /\ ~sessions'[s].initiating
          /\ reply'.code # 201)
         => /\ sessions'[s].status = "FAILED"
            /\ reply'.code >= 400]_vars

\* C20: the status a callback writes on a PENDING session (one the gateway had
\* accepted) is the status the poll's transition gives for the same gateway
\* state.
C20_CallbackAppliesPollTransition ==
    [][\A h \in 1..MaxHandlers :
         (/\ handlers[h].pc = "cb_update"
          /\ handlers'[h].pc # "cb_update"
          /\ sessions[handlers[h].sess].paymentUrl # 0
          /\ sessions[handlers[h].sess].status = "PENDING")
         => sessions'[handlers[h].sess].status = NewStatus(handlers[h].state)]_vars

\* C21: a materializer that found fewer cart rows than the session's cartItemIds
\* creates no Order and changes no stock.
C21_NoPartialMaterialization ==
    [][\A h \in 1..MaxHandlers :
         (/\ handlers[h].pc = "m_order"
          /\ Len(handlers[h].items) < Cardinality(sessions[handlers[h].sess].cartItemIds))
         => (orders' = orders /\ stock' = stock)]_vars

\* C22: a materializer that has read its cart rows and one of whose items asks
\* for more than the product's current stock does not go on: it creates no Order
\* (and so no OrderItem and no stock decrement).
C22_StockRecheckedAtMaterialization ==
    [][\A h \in 1..MaxHandlers :
         (/\ handlers[h].pc = "m_order"
          /\ \E i \in 1..Len(handlers[h].items) :
                stock[handlers[h].items[i].productId] < handlers[h].items[i].quantity)
         => (orders' = orders /\ stock' = stock)]_vars

\* C23: no product's stock is ever below zero.
C23_StockNeverNegative == \A p \in Products : stock[p] >= 0

\* C24: a step that turns a session SUCCESS is the update of a callback handler
\* that holds the gateway state COMPLETED for that session, or the update of a
\* poll of that session whose status check answered COMPLETED; a session is not
\* created SUCCESS.
C24_SuccessOnlyOnCompleted ==
    [][/\ \A s \in Sessions :
            (sessions'[s].status = "SUCCESS" /\ sessions[s].status # "SUCCESS")
            => \E h \in 1..MaxHandlers :
                 /\ handlers[h].sess = s
                 /\ \/ /\ handlers[h].pc = "cb_update"
                       /\ handlers[h].state = "COMPLETED"
                       /\ handlers'[h].pc = "m_find"
                    \/ /\ handlers[h].pc = "poll_gateway"
                       /\ PollGateway(h, "COMPLETED")
       /\ \A s \in 1..Len(sessions') :
            s > Len(sessions) => sessions'[s].status # "SUCCESS"]_vars

\* A poll whose status check answered COMPLETED has set its session SUCCESS and
\* is about to materialize.
C24_Witness ==
    \E s \in Sessions :
        /\ sessions[s].status = "SUCCESS"
        /\ sessions[s].orderId = 0
        /\ \E h \in 1..MaxHandlers : InFlight(h, "poll", s) /\ handlers[h].pc = "m_find"

\* C25: every Order carries as paymentId the gateway transaction id stored on its
\* session, whichever path materialized it.
C25_OrderPaymentId ==
    \A o \in 1..Len(orders) :
        orders[o].paymentId = sessions[orders[o].session].phonePeTransactionId

\* C26: a cart row that a step changes is removed by a materializer at its cart
\* deletion, is one of the ids of that materializer's session and belongs to the
\* session's user; every other cart row is as before.
C26_OnlySessionRowsRemoved ==
    [][\A c \in CartIds :
         cart'[c] # cart[c]
         => /\ cart'[c] = NoCart
            /\ \E h \in 1..MaxHandlers :
                  /\ handlers[h].pc = "m_cart"
                  /\ handlers'[h].pc = "m_session"
                  /\ c \in sessions[handlers[h].sess].cartItemIds
                  /\ cart[c].userId = sessions[handlers[h].sess].userId]_vars

\* A session of one cart row has its order, and another row of the same user is
\* still in the cart.
C26_Witness ==
    \E s \in Sessions :
        /\ sessions[s].orderId # 0
        /\ Cardinality(sessions[s].cartItemIds) = 1
        /\ \A c \in sessions[s].cartItemIds : cart[c] = NoCart
        /\ \E c \in CartIds \ sessions[s].cartItemIds : cart[c].userId = sessions[s].userId

C28_TotalIsSumOfItems ==
    Busy = {}
    => \A o \in 1..Len(orders) : orders[o].totalAmount = TotalAmount(orders[o].items)

\* C29: while no handler is running, for every product the stock removed since
\* the start equals the total quantity of that product over the items of all
\* created Orders (the model has no administrative stock edit).
C29_StockConservation ==
    Busy = {} => \A p \in Products : InitStock - stock[p] = Sold(p)

\* C30: no step changes the transactionId, userId, amount, cartItemIds,
\* shippingAddress or expiresAt of an existing session, and no step removes a
\* session.
C30_SessionFieldsImmutable ==
    [][/\ Len(sessions') >= Len(sessions)
       /\ \A s \in Sessions :
            \A f \in {"transactionId", "userId", "amount", "cartItemIds",
                      "shippingAddress", "expiresAt"} :
                sessions'[s][f] = sessions[s][f]]_vars

\* A callback has been applied to a session whose cart rows are all still there
\* and are now worth something else than the session's amount.
C30_Witness ==
    \E s \in Sessions :
        LET rows == CartRows(sessions[s].userId, sessions[s].cartItemIds)
        IN /\ sessions[s].status = "FAILED"
           /\ sessions[s].phonePeTransactionId # 0
           /\ Len(rows) = Cardinality(sessions[s].cartItemIds)
           /\ TotalAmount(rows) # sessions[s].amount

\* C31: with the periodic sweep kept running, a session that is PENDING with
\* expiresAt earlier than now eventually is no longer PENDING: the sweep marks
\* it EXPIRED unless a callback or a poll finalizes it first.
C31_ExpiredPendingLeaves ==
    \A s \in 1..MaxSessions :
        (s \in Sessions /\ sessions[s].status = "PENDING" /\ sessions[s].expiresAt < now)
        ~> (s \in Sessions /\ sessions[s].status # "PENDING")

\* The sweep has expired an overdue session that the gateway had accepted and
\* that no callback or poll has touched.
C31_Witness ==
    \E s \in Sessions :
        /\ sessions[s].status = "EXPIRED"
        /\ sessions[s].expiresAt < now
        /\ sessions[s].paymentUrl # 0
        /\ sessions[s].phonePeTransactionId = 0
        /\ Busy = {}

\* C32: a creation request with a complete address is answered 404 when the
\* user's cart rows among cartItemIds are fewer than the ids supplied, otherwise
\* with the unavailable-product error when a referenced product is inactive,
\* otherwise with the insufficient-stock error when some item's stock is below
\* its quantity.
C32_ValidationOrder ==
    [][\A u \in Users, addr \in Addresses, ids \in (SUBSET CartIds) \ {{}} :
         CreatePaymentSession(u, addr, ids)
         => LET cartItems == CartRows(u, ids)
            IN IF Len(cartItems) # Cardinality(ids)
               THEN reply'.code = 404
               ELSE IF \E i \in 1..Len(cartItems) : ~isActive[cartItems[i].productId]
               THEN reply'.error = "Unavailable products"
               ELSE IF \E i \in 1..Len(cartItems) :
                          cartItems[i].stock < cartItems[i].quantity
               THEN reply'.error = "Insufficient stock"
               ELSE reply'.code = 0]_vars

\* C33: a creation request rejected by validation (address, cart rows, inactive
\* product, stock) leaves the sessions as they were: nothing is persisted and no
\* gateway call is pending.
C33_RejectionPersistsNothing ==
    [][(/\ reply'.op = "create"
        /\ reply'.error \in {"field is required in shipping address",
                             "Some selected items are not in your cart",
                             "Unavailable products",
                             "Insufficient stock"})
       => sessions' = sessions]_vars

\* A request for a product whose stock the admin had set to 0 was rejected, and
\* there is no session.
C33_Witness ==
    /\ reply.op = "create"
    /\ reply.error = "Insufficient stock"
    /\ \E p \in Products : stock[p] = 0
    /\ sessions = << >>

\* C34: a callback that passes the verification and decodes to a transaction id
\* of no session is answered 404 'Payment session not found' at once, and
\* changes no session, order, stock or cart.
C34_UnknownCallbackIsNotFound ==
    [][\A h \in 1..MaxHandlers :
         (handlers[h].pc = "idle" /\ (reply'.op = "callback" \/ handlers'[h].kind = "callback"))
         => \A body \in Bodies, checksum \in Headers :
              (/\ CallbackReceive(h, body, checksum)
               /\ body # << >>
               /\ checksum # << >>
               /\ verifyCallback(body, checksum)
               /\ ~decodeCallbackResponse(body).malformed
               /\ \A s \in Sessions :
                     sessions[s].transactionId
                        # decodeCallbackResponse(body).merchantTransactionId)
              => /\ reply'.code = 404
                 /\ reply'.error = "Payment session not found"
                 /\ handlers'[h].pc = "idle"
                 /\ UNCHANGED <<sessions, orders, stock, cart>>]_vars

\* A callback naming another transaction than the one session's was answered
\* 404, the session still being PENDING.
C34_Witness ==
    /\ reply.op = "callback"
    /\ reply.code = 404
    /\ Len(sessions) = 1
    /\ sessions[1].status = "PENDING"
    /\ sessions[1].paymentUrl # 0

\* C35: the owner's poll for a session stored SUCCESS, FAILED or EXPIRED is
\* answered at once with the stored status and orderId, starts no gateway status
\* call and changes no session, order, stock or cart.
C35_TerminalPollIsRead ==
    [][\A h \in 1..MaxHandlers :
         (handlers[h].pc = "idle" /\ (reply'.op = "poll" \/ handlers'[h].kind = "poll"))
         => \A t \in TxnIds, u \in Users :
              (/\ PollReceive(h, t, u)
               /\ \E s \in Sessions :
                     /\ sessions[s].transactionId = t
                     /\ sessions[s].userId = u
                     /\ sessions[s].status \in Terminal)
              => /\ handlers'[h].pc = "idle"
                 /\ reply'.code = 200
                 /\ \E s \in Sessions :
                       /\ sessions[s].transactionId = t
                       /\ reply'.status = sessions[s].status
                       /\ reply'.orderId = sessions[s].orderId
                 /\ UNCHANGED <<sessions, orders, stock, cart>>]_vars

\* A poll for a session the sweep had expired was answered with EXPIRED.
C35_Witness ==
    /\ reply.op = "poll"
    /\ reply.code = 200
    /\ reply.status = "EXPIRED"
    /\ \E s \in Sessions : sessions[s].status = "EXPIRED"

\* C36: in every state, a session's orderId that is set names an existing Order
\* of the session's user whose materialization is over: no handler is still
\* working on that order, the stock is below its start by at least the order's
\* quantities, and none of the session's cart rows is left in the cart.
C36_OrderIdWrittenLast ==
    \A s \in Sessions :
        sessions[s].orderId # 0
        => LET o == sessions[s].orderId
           IN /\ o \in 1..Len(orders)
              /\ orders[o].userId = sessions[s].userId
              /\ \A h \in 1..MaxHandlers : handlers[h].order # o
              /\ \A p \in Products : stock[p] <= InitStock - SoldIn(orders[o].items, p)
              /\ \A c \in sessions[s].cartItemIds : cart[c] = NoCart

\* A session has its order, with an item, while another handler is still
\* materializing the same session.
C36_Witness ==
    \E s \in Sessions :
        /\ sessions[s].orderId # 0
        /\ Len(orders[sessions[s].orderId].items) > 0
        /\ \E h \in 1..MaxHandlers :
              handlers[h].sess = s /\ handlers[h].pc \in {"m_order", "m_items", "m_stock", "m_cart"}

=============================================================================
